---- MODULE Spec2Model ----
(***************************************************************************)
(* The MLIR function IR and the two function passes of                     *)
(*   tensorflow/compiler/mlir/tensorflow/translate/                        *)
(*     tf_functional_to_executor.cc        (functional -> executor form)   *)
(*   tensorflow/compiler/mlir/tensorflow/transforms/                       *)
(*     replicate_invariant_op_hoisting.cc  (replicate invariant hoisting)  *)
(*                                                                         *)
(* A function is a record                                                  *)
(*   ops       : op id -> [kind, operands, nres, region, n, block]         *)
(*   blocks    : block id -> [ops, nargs, parent]                          *)
(*   body      : the function's blocks, in order                           *)
(*   nresults  : number of results of the function type                    *)
(*   nextOp, nextBlock : the next fresh ids (allocation never reuses one)  *)
(* An op has at most one region of one block (region = 0: none); a region  *)
(* is named by the op that owns it, the function's region by 0.            *)
(* A value is [def |-> "arg", owner |-> block, num |-> i] or               *)
(*            [def |-> "res", owner |-> op, num |-> i], i counted from 0.  *)
(***************************************************************************)
EXTENDS Integers, Sequences, FiniteSets, TLC

VARIABLES func, pre, last, prior, log

vars == <<func, pre, last, prior, log>>

---------------------------------------------------------------------------
(* Bounds of the enumerated input functions.                               *)
MaxReplicas == 2
MaxBlockArgs == 2
MaxBody == 2
MaxResults == 2
MaxFlatOps == 2

---------------------------------------------------------------------------
(* Values, blocks, regions.                                                *)

FuncRegion == 0
NullRegion == -1

BlockArgument(b, i) == [def |-> "arg", owner |-> b, num |-> i]
OpResult(o, i) == [def |-> "res", owner |-> o, num |-> i]

getResults(f, o) == [i \in 1..f.ops[o].nres |-> OpResult(o, i - 1)]

Last(s) == s[Len(s)]
Front(s) == SubSeq(s, 1, Len(s) - 1)
Range(s) == {s[i] : i \in 1..Len(s)}
IndexOf(s, x) == CHOOSE i \in 1..Len(s) : s[i] = x
InsertAt(s, i, x) == SubSeq(s, 1, i - 1) \o <<x>> \o SubSeq(s, i, Len(s))
Without(s, x) == SelectSeq(s, LAMBDA y : y # x)

RECURSIVE Flatten(_)
Flatten(ss) == IF ss = <<>> THEN <<>> ELSE Head(ss) \o Flatten(Tail(ss))

(* Block::getTerminator, Block::without_terminator *)
getTerminator(f, b) == Last(f.blocks[b].ops)
without_terminator(f, b) == Front(f.blocks[b].ops)

(* Operation::getParentRegion: the region holding the op's block *)
OpParentRegion(f, o) == f.blocks[f.ops[o].block].parent

(* Value::getParentRegion: null when the definition is in no block *)
getParentRegion(f, v) ==
  IF v.def = "arg"
  THEN IF v.owner \in DOMAIN f.blocks THEN f.blocks[v.owner].parent ELSE NullRegion
  ELSE IF v.owner \in DOMAIN f.ops THEN OpParentRegion(f, v.owner) ELSE NullRegion

(* the regions strictly enclosing region r *)
RECURSIVE RegionAncestors(_, _)
RegionAncestors(f, r) ==
  IF r = FuncRegion \/ r \notin DOMAIN f.ops THEN {}
  ELSE LET p == OpParentRegion(f, r) IN {p} \cup RegionAncestors(f, p)

(* Region::isProperAncestor: r is a proper ancestor of other *)
isProperAncestor(f, r, other) == r # other /\ r \in RegionAncestors(f, other)

(* Operation::walk: the op and every op nested in it, post-order *)
RECURSIVE WalkOp(_, _)
WalkOp(f, o) ==
  LET b == f.ops[o].region
      inner == IF b = 0 THEN <<>>
               ELSE Flatten([i \in 1..Len(f.blocks[b].ops) |-> WalkOp(f, f.blocks[b].ops[i])])
  IN inner \o <<o>>

(* FuncOp::walk: every op of the function, post-order *)
WalkFunc(f) ==
  Flatten([j \in 1..Len(f.body) |->
    Flatten([i \in 1..Len(f.blocks[f.body[j]].ops) |-> WalkOp(f, f.blocks[f.body[j]].ops[i])])])

---------------------------------------------------------------------------
(* Mutation primitives of the IR.                                          *)

NewOp(kind, operands, nres, n, b) ==
  [kind |-> kind, operands |-> operands, nres |-> nres, region |-> 0, n |-> n, block |-> b]

(* OpBuilder::create at position idx of block b; the new op is f.nextOp *)
CreateOp(f, b, idx, kind, operands, nres, n) ==
  LET o == f.nextOp IN
  [f EXCEPT !.ops = (o :> NewOp(kind, operands, nres, n, b)) @@ @,
            !.blocks[b].ops = InsertAt(@, idx, o),
            !.nextOp = o + 1]

(* op.body().push_back(new Block): the new block is f.nextBlock *)
PushBackBlock(f, o, nargs) ==
  LET b == f.nextBlock IN
  [f EXCEPT !.blocks = (b :> [ops |-> <<>>, nargs |-> nargs, parent |-> o]) @@ @,
            !.ops[o].region = b,
            !.nextBlock = b + 1]

(* Operation::setOperand *)
setOperand(f, o, i, v) == [f EXCEPT !.ops[o].operands[i + 1] = v]

(* the (op, operand index) pairs that use value v *)
Uses(f, v) ==
  UNION {{<<o, i - 1>> : i \in {j \in 1..Len(f.ops[o].operands) : f.ops[o].operands[j] = v}} :
         o \in DOMAIN f.ops}

(* Operation::replaceAllUsesWith *)
replaceAllUsesWith(f, old, new) ==
  [f EXCEPT !.ops = [o \in DOMAIN f.ops |->
     [f.ops[o] EXCEPT !.operands =
        [i \in 1..Len(@) |-> IF @[i].def = "res" /\ @[i].owner = old
                             THEN OpResult(new, @[i].num) ELSE @[i]]]]]

(* Operation::erase: the op leaves its block and ceases to exist *)
erase(f, o) ==
  [f EXCEPT !.blocks[f.ops[o].block].ops = Without(@, o),
            !.ops = [x \in DOMAIN f.ops \ {o} |-> f.ops[x]]]

(* Operation::moveBefore *)
moveBefore(f, o, target) ==
  LET from == f.ops[o].block
      to == f.ops[target].block
      g == [f EXCEPT !.blocks[from].ops = Without(@, o)]
  IN [g EXCEPT !.blocks[to].ops = InsertAt(@, IndexOf(@, target), o),
               !.ops[o].block = to]

(* iplist::splice: the ops of range leave block from and enter block to at idx *)
splice(f, to, idx, from, range) ==
  LET g == [f EXCEPT !.blocks[from].ops = SelectSeq(@, LAMBDA x : x \notin Range(range))]
  IN [g EXCEPT !.blocks[to].ops = SubSeq(@, 1, idx - 1) \o range \o SubSeq(@, idx, Len(@)),
               !.ops = [x \in DOMAIN g.ops |->
                          IF x \in Range(range) THEN [g.ops[x] EXCEPT !.block = to]
                          ELSE g.ops[x]]]

---------------------------------------------------------------------------
(* FunctionalToExecutorDialectConversion (tf_functional_to_executor.cc)    *)

(* variant: the "already a graph" test never succeeds *)
NeverAlreadyGraph(f, copy_range) == FALSE

(* the range is one op, and that op is a tf_executor.graph *)
IsAlreadyGraph(f, copy_range) ==
  /\ copy_range # <<>>
  /\ Tail(copy_range) = <<>>
  /\ f.ops[Head(copy_range)].kind = "tf_executor.graph"

(* variant: any terminator is taken for a return *)
AnyTerminatorIsReturn(f, o) == TRUE

(* dyn_cast<ReturnOp> succeeds *)
IsReturnOp(f, o) == f.ops[o].kind = "std.return"

(* variant: the last result is dropped whatever the size *)
AlwaysDropControl(to_fetch) == Front(to_fetch)

(* the island's results, less the control result when there is more than one *)
DropControl(to_fetch) == IF Len(to_fetch) # 1 THEN Front(to_fetch) ELSE to_fetch

(* return_op.setOperand(i, graph result i) for every graph result *)
SetReturnOperands(f, return_op, results) ==
  [f EXCEPT !.ops[return_op].operands =
     [i \in 1..Len(@) |-> IF i <= Len(results) THEN results[i] ELSE @[i]]]

(* variant: the range is taken again from the block as it is when spliced *)
SpliceRangeRecomputed(f, body, copy_range) == without_terminator(f, body)

(* the ops between copy_range.begin() and copy_range.end() when the splice  *)
(* runs: the iterators were taken before the graph op was inserted at the   *)
(* front of the block, so they still delimit the original ops               *)
SpliceRange(f, body, copy_range) == copy_range

BuildGraph(f, body, copy_range, return_op) ==
  LET args == f.ops[return_op].operands
      graph_op == f.nextOp
      f1 == CreateOp(f, body, 1, "tf_executor.graph", <<>>, f.nresults, 0)
      f2 == PushBackBlock(f1, graph_op, 0)
      gblock == f2.ops[graph_op].region
      island == f2.nextOp
      f3 == CreateOp(f2, gblock, Len(f2.blocks[gblock].ops) + 1,
                     "tf_executor.island", <<>>, f.nresults + 1, 0)
      to_fetch == DropControl(getResults(f3, island))
      f4 == CreateOp(f3, gblock, Len(f3.blocks[gblock].ops) + 1,
                     "tf_executor.fetch", to_fetch, 0, 0)
      f5 == PushBackBlock(f4, island, 0)
      iblock == f5.ops[island].region
      f6 == splice(f5, iblock, 1, body, SpliceRange(f5, body, copy_range))
      f7 == CreateOp(f6, iblock, Len(f6.blocks[iblock].ops) + 1,
                     "tf_executor.yield", args, 0, 0)
  IN SetReturnOperands(f7, return_op, getResults(f7, graph_op))

FunctionalToExecutor(f) ==
  IF Len(f.body) # 1 THEN f
  ELSE LET body == f.body[1]
           copy_range == without_terminator(f, body)
       IN IF IsAlreadyGraph(f, copy_range) THEN f
          ELSE LET return_op == getTerminator(f, body)
               IN IF ~IsReturnOp(f, return_op) THEN f
                  ELSE BuildGraph(f, body, copy_range, return_op)

---------------------------------------------------------------------------
(* ReplicateInvariantOpHoistingPass (replicate_invariant_op_hoisting.cc)   *)
(* The pass state st is [f, replaced]: the function and, for every ShapeOp *)
(* replaced by a VariableShapeOp, where the new op was built and how many  *)
(* uses the old op had when it was erased.                                 *)

getOperand(f, o, i) == f.ops[o].operands[i + 1]

(* variant: the argument number alone *)
ArgNumberOnly(num_replicas, arg_number) == arg_number

(* the replicate operand of replica 0 for block argument arg_number *)
FirstReplicaOperandIndex(num_replicas, arg_number) == num_replicas * arg_number

(* variant: the old op is erased with its uses still on it *)
ReplaceWithoutRebinding(st, replicate_op, num_replicas, block_arg, shape_op) ==
  LET f == st.f
      b == f.ops[shape_op].block
      pos == IndexOf(f.blocks[b].ops, shape_op)
      new_shape_op == f.nextOp
      f1 == CreateOp(f, b, pos, "tf.VariableShape",
                     <<getOperand(f, replicate_op,
                                  FirstReplicaOperandIndex(num_replicas, block_arg.num))>>,
                     f.ops[shape_op].nres, 0)
      uses == Cardinality(Uses(f1, OpResult(shape_op, 0)))
  IN [f |-> erase(f1, shape_op),
      replaced |-> Append(st.replaced,
                     [old |-> shape_op, new |-> new_shape_op, block |-> b,
                      index |-> pos, uses |-> uses])]

(* OpBuilder builder(shape_op); create VariableShapeOp; replaceAllUsesWith; *)
(* erase                                                                    *)
ReplaceWithVariableShape(st, replicate_op, num_replicas, block_arg, shape_op) ==
  LET f == st.f
      b == f.ops[shape_op].block
      pos == IndexOf(f.blocks[b].ops, shape_op)
      new_shape_op == f.nextOp
      f1 == CreateOp(f, b, pos, "tf.VariableShape",
                     <<getOperand(f, replicate_op,
                                  FirstReplicaOperandIndex(num_replicas, block_arg.num))>>,
                     f.ops[shape_op].nres, 0)
      f2 == replaceAllUsesWith(f1, shape_op, new_shape_op)
      uses == Cardinality(Uses(f2, OpResult(shape_op, 0)))
  IN [f |-> erase(f2, shape_op),
      replaced |-> Append(st.replaced,
                     [old |-> shape_op, new |-> new_shape_op, block |-> b,
                      index |-> pos, uses |-> uses])]

MakeShapeOpInvariant(st, replicate_op, num_replicas, replicate_block, shape_op) ==
  LET f == st.f
      input == getOperand(f, shape_op, 0)
  IN IF input.def = "arg"
     THEN IF input.owner # replicate_block THEN st
          ELSE [st EXCEPT !.f = setOperand(f, shape_op, 0,
                  getOperand(f, replicate_op,
                             FirstReplicaOperandIndex(num_replicas, input.num)))]
     ELSE LET input_def == input.owner
          IN IF f.ops[input_def].kind # "tf.ReadVariableOp" THEN st
             ELSE LET resource == getOperand(f, input_def, 0)
                  IN IF resource.def = "arg" /\ resource.owner = replicate_block
                     THEN ReplaceWithVariableShape(st, replicate_op, num_replicas,
                                                   resource, shape_op)
                     ELSE st

(* variant: the replicate's region counts as its own ancestor *)
AncestorNotProper(f, replicate_region, op) ==
  \A inner_op \in Range(WalkOp(f, op)) :
    \A i \in 1..Len(f.ops[inner_op].operands) :
      LET parent_region == getParentRegion(f, f.ops[inner_op].operands[i])
      IN parent_region # NullRegion
         /\ (parent_region = replicate_region
             \/ isProperAncestor(f, parent_region, replicate_region))

(* variant: only the op's own operands are looked at *)
OwnOperandsInvariant(f, replicate_region, op) ==
  \A i \in 1..Len(f.ops[op].operands) :
    LET parent_region == getParentRegion(f, f.ops[op].operands[i])
    IN parent_region # NullRegion
       /\ isProperAncestor(f, parent_region, replicate_region)

(* every operand of op and of the ops nested in it has a parent region that *)
(* is a proper ancestor of replicate_region                                 *)
IsOpReplicateInvariant(f, replicate_region, op) ==
  \A inner_op \in Range(WalkOp(f, op)) :
    \A i \in 1..Len(f.ops[inner_op].operands) :
      LET parent_region == getParentRegion(f, f.ops[inner_op].operands[i])
      IN parent_region # NullRegion
         /\ isProperAncestor(f, parent_region, replicate_region)

RECURSIVE ShapeWalk(_, _, _, _, _)
ShapeWalk(st, replicate_op, num_replicas, replicate_block, shape_ops) ==
  IF shape_ops = <<>> THEN st
  ELSE ShapeWalk(MakeShapeOpInvariant(st, replicate_op, num_replicas, replicate_block,
                                      Head(shape_ops)),
                 replicate_op, num_replicas, replicate_block, Tail(shape_ops))

(* variant: every op is judged against the function as the loop found it *)
RECURSIVE MoveAll(_, _, _)
MoveAll(f, replicate_op, ops) ==
  IF ops = <<>> THEN f
  ELSE MoveAll(moveBefore(f, Head(ops), replicate_op), replicate_op, Tail(ops))

HoistLoopStale(f, replicate_op, inner_ops) ==
  MoveAll(f, replicate_op,
          SelectSeq(inner_ops, LAMBDA o : /\ f.ops[o].kind # "tf_device.return"
                                          /\ IsOpReplicateInvariant(f, replicate_op, o)))

(* variant: the terminator is not skipped *)
RECURSIVE HoistLoopWithTerminator(_, _, _)
HoistLoopWithTerminator(f, replicate_op, inner_ops) ==
  IF inner_ops = <<>> THEN f
  ELSE IF IsOpReplicateInvariant(f, replicate_op, Head(inner_ops))
       THEN HoistLoopWithTerminator(moveBefore(f, Head(inner_ops), replicate_op),
                                    replicate_op, Tail(inner_ops))
       ELSE HoistLoopWithTerminator(f, replicate_op, Tail(inner_ops))

(* the loop over make_early_inc_range(replicate_op.GetBody()): inner_ops is *)
(* the rest of the block as it was when the loop started                    *)
RECURSIVE HoistLoop(_, _, _)
HoistLoop(f, replicate_op, inner_ops) ==
  IF inner_ops = <<>> THEN f
  ELSE LET inner_op == Head(inner_ops)
       IN IF f.ops[inner_op].kind = "tf_device.return"
          THEN HoistLoop(f, replicate_op, Tail(inner_ops))
          ELSE IF IsOpReplicateInvariant(f, replicate_op, inner_op)
               THEN HoistLoop(moveBefore(f, inner_op, replicate_op), replicate_op,
                              Tail(inner_ops))
               ELSE HoistLoop(f, replicate_op, Tail(inner_ops))

HoistReplicateInvariantOps(st, replicate_op) ==
  LET num_replicas == st.f.ops[replicate_op].n
      replicate_block == st.f.ops[replicate_op].region
      shape_ops == SelectSeq(WalkOp(st.f, replicate_op),
                             LAMBDA o : st.f.ops[o].kind = "tf.Shape")
      st1 == ShapeWalk(st, replicate_op, num_replicas, replicate_block, shape_ops)
  IN [st1 EXCEPT !.f = HoistLoop(st1.f, replicate_op, st1.f.blocks[replicate_block].ops)]

RECURSIVE ReplicateWalk(_, _)
ReplicateWalk(st, replicate_ops) ==
  IF replicate_ops = <<>> THEN st
  ELSE ReplicateWalk(HoistReplicateInvariantOps(st, Head(replicate_ops)),
                     Tail(replicate_ops))

ReplicateInvariantOpHoisting(f) ==
  ReplicateWalk([f |-> f, replaced |-> <<>>],
                SelectSeq(WalkFunc(f), LAMBDA o : f.ops[o].kind = "tf_device.replicate"))

---------------------------------------------------------------------------
(* The input functions.  Each is built with the builder primitives above,  *)
(* so every op sits in the block that lists it and ids are never reused.   *)

AppendOp(f, b, kind, operands, nres, n) ==
  CreateOp(f, b, Len(f.blocks[b].ops) + 1, kind, operands, nres, n)

EmptyFunc(nargs, nresults, nblocks) ==
  [ops |-> <<>>,
   blocks |-> [b \in 1..nblocks |->
                 [ops |-> <<>>, nargs |-> IF b = 1 THEN nargs ELSE 0, parent |-> FuncRegion]],
   body |-> [b \in 1..nblocks |-> b],
   nresults |-> nresults,
   nextOp |-> 1,
   nextBlock |-> nblocks + 1]

(* m ops in a chain on the first argument, each using the one before *)
RECURSIVE AppendChain(_, _)
AppendChain(f, m) ==
  IF m = 0 THEN f
  ELSE LET g == AppendChain(f, m - 1)
       IN AppendOp(g, 1, "tf.Other",
                   <<IF m = 1 THEN BlockArgument(1, 0) ELSE OpResult(g.nextOp - 1, 0)>>, 1, 0)

(* the k values returned: the last op's result first when there is one *)
FlatReturned(f, k, m) ==
  [j \in 1..k |-> IF j = 1 /\ m > 0 THEN OpResult(f.nextOp - 1, 0)
                  ELSE BlockArgument(1, j - 1)]

RECURSIVE AppendTailBlocks(_, _, _)
AppendTailBlocks(f, b, k) ==
  IF b < 2 THEN f
  ELSE AppendOp(AppendTailBlocks(f, b - 1, k), b, "std.return",
                [j \in 1..k |-> BlockArgument(1, j - 1)], 0, 0)

(* a function of nblocks blocks whose first block holds m ops and ends with *)
(* a terminator of kind term; k results                                     *)
FlatFunc(nblocks, term, k, m) ==
  IF nblocks = 0 THEN EmptyFunc(0, k, 0)
  ELSE LET f0 == EmptyFunc(IF k = 0 THEN 1 ELSE k, k, nblocks)
           f1 == AppendChain(f0, m)
           f2 == AppendOp(f1, 1, term, FlatReturned(f1, k, m), 0, 0)
       IN AppendTailBlocks(f2, nblocks, k)

FlatInputs ==
  {FlatFunc(0, "std.return", 0, 0)} \cup
  {FlatFunc(nb, t, k, m) : nb \in {1, 2}, t \in {"std.return", "std.br"},
                           k \in 0..MaxResults, m \in 0..MaxFlatOps}

(* One op of a replicate body: kind(src), or a tf.RegionOp whose block      *)
(* holds ikind(isrc).  A source is a value defined outside the replicate    *)
(* ("out"), the replicate's block argument ("arg"), the result of the op    *)
(* before ("prev") or the block argument of the op's own nested block       *)
(* ("nested").                                                              *)
SimpleChoices(first) ==
  {[kind |-> k, src |-> s, ikind |-> "none", isrc |-> "none"] :
     k \in {"tf.Shape", "tf.Other"},
     s \in {"out", "arg"} \cup (IF first THEN {} ELSE {"prev"})}
  \cup
  {[kind |-> "tf.ReadVariableOp", src |-> s, ikind |-> "none", isrc |-> "none"] :
     s \in {"out", "arg"}}

RegionChoices(first) ==
  {[kind |-> "tf.RegionOp", src |-> "out", ikind |-> "tf.Shape", isrc |-> s] :
     s \in {"arg", "nested"} \cup (IF first THEN {} ELSE {"prev"})}
  \cup
  {[kind |-> "tf.RegionOp", src |-> "out", ikind |-> "tf.Other", isrc |-> s] :
     s \in {"out", "arg", "nested"}}

RECURSIVE Bodies(_)
Bodies(len) ==
  IF len = 0 THEN {<<>>}
  ELSE LET shorter == Bodies(len - 1)
       IN shorter \cup
          {Append(b, d) : b \in {x \in shorter : Len(x) = len - 1},
                          d \in SimpleChoices(len = 1) \cup RegionChoices(len = 1)}

(* c names what a body refers to: the outside value, the replicate's     *)
(* block and the number of the block argument used                         *)
SrcValue(src, c, prev_op, nested_block) ==
  CASE src = "out" -> c.out
    [] src = "arg" -> BlockArgument(c.block, c.ai)
    [] src = "prev" -> OpResult(prev_op, 0)
    [] src = "nested" -> BlockArgument(nested_block, 0)

(* appends the op d describes to the replicate block; returns the function *)
AppendBodyOp(f, d, c, prev_op) ==
  IF d.kind # "tf.RegionOp"
  THEN AppendOp(f, c.block, d.kind, <<SrcValue(d.src, c, prev_op, 0)>>, 1, 0)
  ELSE LET region_op == f.nextOp
           f1 == AppendOp(f, c.block, d.kind, <<SrcValue(d.src, c, prev_op, 0)>>, 1, 0)
           f2 == PushBackBlock(f1, region_op, 1)
           nested == f2.ops[region_op].region
           f3 == AppendOp(f2, nested, d.ikind, <<SrcValue(d.isrc, c, prev_op, nested)>>, 1, 0)
       IN AppendOp(f3, nested, "tf.Yield", <<>>, 0, 0)

RECURSIVE AppendBody(_, _, _)
AppendBody(f, body, c) ==
  IF body = <<>> THEN f
  ELSE LET g == AppendBody(f, Front(body), c)
           ops == g.blocks[c.block].ops
       IN AppendBodyOp(g, Last(body), c, IF ops = <<>> THEN 0 ELSE Last(ops))

(* func(a_0 .. a_{n*m-1}) { %out = tf.Other(a_0);                           *)
(*   %r = tf_device.replicate([a_0..] as m block arguments) {n} { body;     *)
(*   tf_device.return last }; return %r#0 }                                 *)
ReplicateFunc(n, ai, body) ==
  LET f0 == EmptyFunc(n * MaxBlockArgs, 1, 1)
      entry == f0.body[1]
      outside_op == f0.nextOp
      f1 == AppendOp(f0, entry, "tf.Other", <<BlockArgument(entry, 0)>>, 1, 0)
      replicate_op == f1.nextOp
      f2 == AppendOp(f1, entry, "tf_device.replicate",
                     [j \in 1..n * MaxBlockArgs |-> BlockArgument(entry, j - 1)], n, n)
      f3 == PushBackBlock(f2, replicate_op, MaxBlockArgs)
      c == [out |-> OpResult(outside_op, 0), block |-> f3.ops[replicate_op].region, ai |-> ai]
      f4 == AppendBody(f3, body, c)
      ops == f4.blocks[c.block].ops
      f5 == AppendOp(f4, c.block, "tf_device.return",
                     <<IF ops = <<>> THEN c.out ELSE OpResult(Last(ops), 0)>>, 0, 0)
  IN AppendOp(f5, entry, "std.return", <<OpResult(replicate_op, 0)>>, 0, 0)

ReplicateInputs ==
  {ReplicateFunc(n, ai, body) :
     n \in 1..MaxReplicas, ai \in 0..MaxBlockArgs - 1, body \in Bodies(MaxBody)}

Inputs == FlatInputs \cup ReplicateInputs

---------------------------------------------------------------------------
(* The driver runs either pass on the function, any number of times, in    *)
(* any order.  pre is the function as the last run found it, last and      *)
(* prior name the last two runs, log is what the last hoisting run          *)
(* replaced.                                                               *)

Init ==
  /\ func \in Inputs
  /\ pre = func
  /\ last = "none"
  /\ prior = "none"
  /\ log = <<>>

RunFunctionalToExecutor ==
  /\ func' = FunctionalToExecutor(func)
  /\ pre' = func
  /\ prior' = last
  /\ last' = "structure"
  /\ log' = <<>>

RunReplicateInvariantOpHoisting ==
  LET st == ReplicateInvariantOpHoisting(func)
  IN /\ func' = st.f
     /\ pre' = func
     /\ prior' = last
     /\ last' = "hoist"
     /\ log' = st.replaced

Next == RunFunctionalToExecutor \/ RunReplicateInvariantOpHoisting

Spec == Init /\ [][Next]_vars

---------------------------------------------------------------------------
(* Vocabulary of the properties.                                           *)

TerminatorKinds ==
  {"std.return", "std.br", "tf_device.return", "tf_executor.fetch",
   "tf_executor.yield", "tf.Yield"}

OpsOfKind(f, kind) == {o \in DOMAIN f.ops : f.ops[o].kind = kind}

BlockOps(f, b) == f.blocks[b].ops

(* value v is defined in region r or in a region nested in it *)
DefinedInside(f, v, r) ==
  LET d == getParentRegion(f, v) IN d = r \/ r \in RegionAncestors(f, d)

DefinedOutside(f, v, r) ==
  getParentRegion(f, v) # NullRegion /\ ~DefinedInside(f, v, r)

OperandsOf(f, o) == Range(f.ops[o].operands)

(* the operands of o and of every op nested in o *)
NestedOperands(f, o) == UNION {OperandsOf(f, x) : x \in Range(WalkOp(f, o))}

(* the value's definition is in the function *)
ValueExists(f, v) ==
  IF v.def = "arg"
  THEN /\ v.owner \in DOMAIN f.blocks
       /\ v.num < f.blocks[v.owner].nargs
       /\ (f.blocks[v.owner].parent = FuncRegion \/ f.blocks[v.owner].parent \in DOMAIN f.ops)
  ELSE v.owner \in DOMAIN f.ops /\ v.num < f.ops[v.owner].nres

(* every op that exists is reached once from the function's blocks, in    *)
(* the block it names, and every listed op exists                          *)
OpsAreListed(f) ==
  /\ LET walk == WalkFunc(f)
     IN Range(walk) = DOMAIN f.ops /\ Len(walk) = Cardinality(DOMAIN f.ops)
  /\ \A b \in DOMAIN f.blocks : \A o \in Range(BlockOps(f, b)) :
       o \in DOMAIN f.ops /\ f.ops[o].block = b

(* a use is an operand slot of an op (MLIR keeps the use list in the       *)
(* operands), so: every op that has operands is in the function, and every *)
(* operand's definition is                                                 *)
NoDanglingUses(f) ==
  /\ OpsAreListed(f)
  /\ \A o \in DOMAIN f.ops : \A v \in OperandsOf(f, o) : ValueExists(f, v)

RegionDominance(f) ==
  \A o \in DOMAIN f.ops : \A v \in OperandsOf(f, o) :
    LET d == getParentRegion(f, v)
        u == OpParentRegion(f, o)
    IN d # NullRegion /\ (d = u \/ d \in RegionAncestors(f, u))

TerminatedBlocks(f) ==
  \A b \in DOMAIN f.blocks :
    LET ops == BlockOps(f, b)
    IN /\ ops # <<>>
       /\ f.ops[Last(ops)].kind \in TerminatorKinds
       /\ \A i \in 1..Len(ops) - 1 : f.ops[ops[i]].kind \notin TerminatorKinds

SingleBlock(f) == Len(f.body) = 1
EndsWithReturn(f) == f.ops[Last(BlockOps(f, f.body[1]))].kind = "std.return"
OnlyGraph(f) ==
  LET ops == BlockOps(f, f.body[1])
  IN Len(ops) = 2 /\ f.ops[ops[1]].kind = "tf_executor.graph"
Applicable(f) == SingleBlock(f) /\ ~OnlyGraph(f) /\ EndsWithReturn(f)

(* the function block, the graph block and the island block after the     *)
(* structuring pass has rewritten function p into f                        *)
BlockShapes(p, f) ==
  LET body == p.body[1]
      old == BlockOps(p, body)
      now == BlockOps(f, body)
  IN /\ f.body = p.body
     /\ Len(now) = 2
     /\ now[2] = Last(old)
     /\ now[1] \notin DOMAIN p.ops
     /\ f.ops[now[1]].kind = "tf_executor.graph"
     /\ f.ops[now[1]].region # 0
     /\ LET gops == BlockOps(f, f.ops[now[1]].region)
        IN /\ Len(gops) = 2
           /\ f.ops[gops[1]].kind = "tf_executor.island"
           /\ f.ops[gops[2]].kind = "tf_executor.fetch"
           /\ f.ops[gops[1]].region # 0
           /\ LET iops == BlockOps(f, f.ops[gops[1]].region)
              IN /\ Front(iops) = Front(old)
                 /\ f.ops[Last(iops)].kind = "tf_executor.yield"
                 /\ Last(iops) \notin DOMAIN p.ops
     /\ OpsAreListed(f)
     /\ TerminatedBlocks(f)

(* return <- graph results, fetch <- island results, yield <- returned values *)
ResultWiring(p, f) ==
  LET body == p.body[1]
      return_op == Last(BlockOps(p, body))
      graph_op == Head(BlockOps(f, body))
      gops == BlockOps(f, f.ops[graph_op].region)
      island == gops[1]
      fetch == gops[2]
      yield == Last(BlockOps(f, f.ops[island].region))
      k == p.nresults
  IN /\ f.ops[graph_op].nres = k
     /\ f.ops[island].nres = k + 1
     /\ f.ops[return_op].operands = [i \in 1..k |-> OpResult(graph_op, i - 1)]
     /\ f.ops[yield].operands = p.ops[return_op].operands
     /\ f.ops[fetch].operands =
          IF k >= 1 THEN [i \in 1..k |-> OpResult(island, i - 1)]
          ELSE <<OpResult(island, 0)>>

---------------------------------------------------------------------------
(* C1: running the structuring pass on its own output changes nothing: the  *)
(* first run leaves a function block whose only non-terminator op is a     *)
(* graph, and the second run returns the function as it found it.          *)
C1_StructuringIdempotent ==
  /\ (last = "structure" /\ func # pre) => OnlyGraph(func)
  /\ (last = "structure" /\ prior = "structure") => func = pre

(* two runs on a function of zero results whose body was only a return *)
C1_Witness ==
  /\ last = "structure" /\ prior = "structure"
  /\ func.nresults = 0
  /\ OnlyGraph(func)
  /\ \E i \in OpsOfKind(func, "tf_executor.island") :
       Len(BlockOps(func, func.ops[i].region)) = 1

(* C2: a function of other than one block, or whose block does not end in  *)
(* a return, is left as it was; every run leaves the function either as it *)
(* was or completely rewritten.                                            *)
C2_InapplicableUnchanged ==
  last = "structure" =>
    /\ (~SingleBlock(pre) \/ ~EndsWithReturn(pre)) => func = pre
    /\ func = pre \/ (Applicable(pre) /\ BlockShapes(pre, func) /\ ResultWiring(pre, func))

(* a run on a one-block function with ops that ends in a branch *)
C2_Witness ==
  /\ last = "structure" /\ prior = "none"
  /\ SingleBlock(pre) /\ ~EndsWithReturn(pre)
  /\ Len(BlockOps(pre, pre.body[1])) > 1

(* C3: after the pass on an applicable function of k results, return      *)
(* operand i is graph result i, yield operand i is what the return         *)
(* carried, and the fetch carries the island's k data results (for k = 0,  *)
(* the island's only result, the control result).                          *)
C3_ResultWiring ==
  (last = "structure" /\ Applicable(pre)) => ResultWiring(pre, func)

(* a run on f(x, y) -> (x, y) with body return x, y *)
C3_Witness ==
  /\ last = "structure" /\ Applicable(pre)
  /\ pre.nresults = 2
  /\ Len(BlockOps(pre, pre.body[1])) = 1
  /\ func # pre

(* C9: after the pass on an applicable function, the function block is the *)
(* new graph and the old return, the graph block is island and fetch, the  *)
(* island block is the old non-terminator ops in order and the yield, and  *)
(* every block ends with its only terminator.                              *)
C9_BlockShapes ==
  (last = "structure" /\ Applicable(pre)) => BlockShapes(pre, func)

(* a run on a function with two ops before the return *)
C9_Witness ==
  /\ last = "structure" /\ Applicable(pre)
  /\ Len(BlockOps(pre, pre.body[1])) = 3
  /\ func # pre

---------------------------------------------------------------------------
(* Vocabulary of the hoisting properties.  pre is the function before the  *)
(* run and func the function after it.                                     *)

Replicates(f) == OpsOfKind(f, "tf_device.replicate")

(* v is a block argument of the body block of a replicate *)
IsReplicateArg(f, v) ==
  /\ v.def = "arg"
  /\ f.blocks[v.owner].parent # FuncRegion
  /\ f.ops[f.blocks[v.owner].parent].kind = "tf_device.replicate"

(* replica 0's operand of the replicate for its block argument v *)
ReplicaZeroOperand(f, v) ==
  LET replicate == f.blocks[v.owner].parent
  IN f.ops[replicate].operands[f.ops[replicate].n * v.num + 1]

(* shape-query s is on a replicate's block argument *)
ArgCase(f, s) == IsReplicateArg(f, f.ops[s].operands[1])

(* shape-query s is on the result of a resource-read of a replicate's      *)
(* block argument                                                          *)
ReadCase(f, s) ==
  LET v == f.ops[s].operands[1]
  IN /\ v.def = "res"
     /\ f.ops[v.owner].kind = "tf.ReadVariableOp"
     /\ IsReplicateArg(f, f.ops[v.owner].operands[1])

Replaced(o) == \E e \in Range(log) : e.old = o
Replacement(o) == (CHOOSE e \in Range(log) : e.old = o).new
Built(o) == \E e \in Range(log) : e.new = o
Building(o) == CHOOSE e \in Range(log) : e.new = o

(* a value, with a replaced shape-query's result rebound to the new op's *)
Rebound(v) ==
  IF v.def = "res" /\ Replaced(v.owner) THEN OpResult(Replacement(v.owner), v.num) ELSE v

(* o was directly in the replicate's body and is now in its parent block *)
Relocated(o, replicate) ==
  /\ o \in DOMAIN func.ops
  /\ func.ops[o].block = pre.ops[replicate].block
  /\ IF o \in DOMAIN pre.ops THEN pre.ops[o].block = pre.ops[replicate].region
     ELSE Built(o) /\ Building(o).block = pre.ops[replicate].region

(* the ops put between what preceded the replicate and the replicate *)
HoistedRun(replicate) ==
  LET pb == pre.ops[replicate].block
  IN SubSeq(BlockOps(func, pb), IndexOf(BlockOps(pre, pb), replicate),
            IndexOf(BlockOps(func, pb), replicate) - 1)

(* o or an op nested in it uses a block argument of block b *)
DependsOnArg(f, o, b) == \E v \in NestedOperands(f, o) : v.def = "arg" /\ v.owner = b

ImmediatelyPrecedes(f, o, target) ==
  /\ o \in DOMAIN f.ops
  /\ f.ops[o].block = f.ops[target].block
  /\ IndexOf(BlockOps(f, f.ops[o].block), o) + 1
       = IndexOf(BlockOps(f, f.ops[o].block), target)

---------------------------------------------------------------------------
(* C4: a shape-query inside a replicate of n replicas whose operand is     *)
(* block argument i of the replicate's block ends with the replicate's     *)
(* operand n*i as its operand, its kind and results kept; a shape-query on *)
(* a block argument of any other block keeps its operand.                  *)
C4_ReplicaZeroRewrite ==
  last = "hoist" =>
    \A s \in OpsOfKind(pre, "tf.Shape") :
      pre.ops[s].operands[1].def = "arg" =>
        /\ s \in DOMAIN func.ops
        /\ func.ops[s].kind = "tf.Shape"
        /\ func.ops[s].nres = pre.ops[s].nres
        /\ func.ops[s].operands =
             IF ArgCase(pre, s) THEN <<ReplicaZeroOperand(pre, pre.ops[s].operands[1])>>
             ELSE pre.ops[s].operands

(* a run on a replicate of two or more replicas that holds, in nested      *)
(* regions, a shape-query on its second block argument and a shape-query   *)
(* on another block's argument                                             *)
C4_Witness ==
  /\ last = "hoist"
  /\ \E s \in OpsOfKind(pre, "tf.Shape") :
       /\ ArgCase(pre, s)
       /\ pre.ops[s].operands[1].num >= 1
       /\ pre.ops[pre.blocks[pre.ops[s].operands[1].owner].parent].n >= 2
       /\ pre.ops[s].block # pre.ops[s].operands[1].owner
  /\ \E s \in OpsOfKind(pre, "tf.Shape") :
       /\ pre.ops[s].operands[1].def = "arg"
       /\ ~ArgCase(pre, s)
       /\ pre.blocks[pre.ops[s].operands[1].owner].parent # FuncRegion

(* C8: a shape-query on a resource-read of the replicate's block argument  *)
(* i is replaced by a new resource-shape-query built at its position on    *)
(* the replicate's operand n*i; every use of its result is rebound to the  *)
(* new op; it has no use when it is erased; the resource-read stays as it  *)
(* was.  A shape-query of neither form is not rewritten: it keeps its kind *)
(* and its operand (rebound, when the operand was a replaced shape-query). *)
C8_ResourceShapeRewrite ==
  last = "hoist" =>
    \A s \in OpsOfKind(pre, "tf.Shape") :
      IF ReadCase(pre, s)
      THEN LET read == pre.ops[s].operands[1].owner
           IN /\ s \notin DOMAIN func.ops
              /\ read \in DOMAIN func.ops
              /\ func.ops[read] = pre.ops[read]
              /\ \E e \in Range(log) :
                   /\ e.old = s
                   /\ e.uses = 0
                   /\ e.block = pre.ops[s].block
                   /\ e.index = IndexOf(BlockOps(pre, e.block), s)
                   /\ e.new \notin DOMAIN pre.ops
                   /\ e.new \in DOMAIN func.ops
                   /\ func.ops[e.new].kind = "tf.VariableShape"
                   /\ func.ops[e.new].nres = pre.ops[s].nres
                   /\ func.ops[e.new].operands =
                        <<ReplicaZeroOperand(pre, pre.ops[read].operands[1])>>
                   /\ \A u \in Uses(pre, OpResult(s, 0)) :
                        /\ u[1] \in DOMAIN func.ops
                        /\ func.ops[u[1]].operands[u[2] + 1] = OpResult(e.new, 0)
      ELSE ArgCase(pre, s) \/
           /\ s \in DOMAIN func.ops
           /\ func.ops[s].kind = "tf.Shape"
           /\ func.ops[s].operands =
                [i \in 1..Len(pre.ops[s].operands) |-> Rebound(pre.ops[s].operands[i])]

(* a run that replaces a shape-query whose result is used *)
C8_Witness ==
  /\ last = "hoist"
  /\ \E e \in Range(log) : Uses(pre, OpResult(e.old, 0)) # {}

(* C7: the ops relocated out of a replicate are a contiguous run right     *)
(* before it in its parent block, in the order they had in the region; the *)
(* ops left keep their order; the terminator stays last in the region.     *)
C7_HoistedPlacement ==
  last = "hoist" =>
    \A r \in Replicates(pre) :
      LET rb == pre.ops[r].region
          pb == pre.ops[r].block
          old == BlockOps(pre, pb)
          now == BlockOps(func, pb)
          pi == IndexOf(old, r)
          run == HoistedRun(r)
          Key(o) == IF o \in DOMAIN pre.ops THEN IndexOf(BlockOps(pre, rb), o)
                    ELSE Building(o).index
          renamed == [i \in 1..Len(BlockOps(pre, rb)) |->
                        IF Replaced(BlockOps(pre, rb)[i])
                        THEN Replacement(BlockOps(pre, rb)[i])
                        ELSE BlockOps(pre, rb)[i]]
      IN /\ r \in DOMAIN func.ops
         /\ func.ops[r].block = pb
         /\ BlockOps(func, rb) # <<>>
         /\ SubSeq(now, 1, pi - 1) = SubSeq(old, 1, pi - 1)
         /\ SubSeq(now, pi + Len(run), Len(now)) = SubSeq(old, pi, Len(old))
         /\ \A i \in 1..Len(run) : Relocated(run[i], r)
         /\ \A i, j \in 1..Len(run) : i < j => Key(run[i]) < Key(run[j])
         /\ BlockOps(func, rb) = SelectSeq(renamed, LAMBDA o : o \notin Range(run))
         /\ Last(BlockOps(func, rb)) = Last(BlockOps(pre, rb))
         /\ func.ops[Last(BlockOps(func, rb))].kind = "tf_device.return"

(* a run that relocates two ops and leaves a terminator whose operand is   *)
(* defined outside the region                                              *)
C7_Witness ==
  /\ last = "hoist"
  /\ \E r \in Replicates(pre) :
       /\ Len(HoistedRun(r)) >= 2
       /\ \A v \in OperandsOf(func, Last(BlockOps(func, func.ops[r].region))) :
            DefinedOutside(func, v, r)

(* C5 as stated: an op directly inside a replicate region whose sole       *)
(* operand is defined outside the region ends immediately before the       *)
(* replicate; an op depending on the replicate's block argument is not     *)
(* relocated.                                                              *)
C5_AsStated ==
  last = "hoist" =>
    \A r \in Replicates(pre) :
      /\ \A o \in Range(BlockOps(pre, pre.ops[r].region)) :
           (Len(pre.ops[o].operands) = 1
            /\ DefinedOutside(pre, pre.ops[o].operands[1], r))
           => ImmediatelyPrecedes(func, o, r)
      /\ \A o \in Range(BlockOps(pre, pre.ops[r].region)) \cap DOMAIN func.ops :
           DependsOnArg(func, o, pre.ops[r].region)
           => func.ops[o].block = pre.ops[r].region

(* C5, amended: a non-terminator op directly inside a replicate region all *)
(* of whose operands, and all operands of the ops nested in it, are        *)
(* defined outside the region is relocated into the run of relocated ops   *)
(* that immediately precedes the replicate; the terminator is not          *)
(* relocated; an op that depends (even through a nested region) on the     *)
(* replicate's block argument once the shape-queries are rewritten is not  *)
(* relocated.                                                              *)
C5_HoistingRespectsDependency ==
  last = "hoist" =>
    \A r \in Replicates(pre) :
      /\ \A o \in Range(Front(BlockOps(pre, pre.ops[r].region))) :
           (\A v \in NestedOperands(pre, o) : DefinedOutside(pre, v, r))
           => Relocated(o, r) /\ o \in Range(HoistedRun(r))
      /\ Last(BlockOps(func, pre.ops[r].region)) = Last(BlockOps(pre, pre.ops[r].region))
      /\ \A o \in Range(BlockOps(pre, pre.ops[r].region)) \cap DOMAIN func.ops :
           DependsOnArg(func, o, pre.ops[r].region)
           => func.ops[o].block = pre.ops[r].region

(* a run that relocates an op holding a region and leaves an op that uses  *)
(* the block argument through a nested region                              *)
C5_Witness ==
  /\ last = "hoist"
  /\ \E r \in Replicates(pre) :
       /\ \E o \in Range(Front(BlockOps(pre, pre.ops[r].region))) :
            /\ pre.ops[o].region # 0
            /\ \A v \in NestedOperands(pre, o) : DefinedOutside(pre, v, r)
            /\ Relocated(o, r)
       /\ \E o \in Range(BlockOps(func, pre.ops[r].region)) :
            /\ func.ops[o].region # 0
            /\ \E x \in Range(BlockOps(func, func.ops[o].region)) :
                 \E v \in OperandsOf(func, x) :
                   v.def = "arg" /\ v.owner = pre.ops[r].region

(* an operand of o that is the result of an op earlier in the replicate's  *)
(* body which the run relocated                                            *)
EarlierRelocatedResult(v, o, replicate) ==
  LET body == BlockOps(pre, pre.ops[replicate].region)
  IN /\ v.def = "res"
     /\ v.owner \in Range(body)
     /\ IndexOf(body, v.owner) < IndexOf(body, o)
     /\ Relocated(v.owner, replicate)

(* C10 as stated: an op whose operands are only results of earlier         *)
(* relocated ops of the body, or values defined outside, is relocated in   *)
(* the same run; a second run changes nothing.                             *)
C10_AsStated ==
  /\ last = "hoist" =>
       \A r \in Replicates(pre) :
         \A o \in Range(BlockOps(pre, pre.ops[r].region)) :
           (\A v \in OperandsOf(pre, o) :
              DefinedOutside(pre, v, r) \/ EarlierRelocatedResult(v, o, r))
           => Relocated(o, r)
  /\ (last = "hoist" /\ prior = "hoist") => (func = pre /\ log = <<>>)

(* C10, amended: a non-terminator op whose operands, and the operands of   *)
(* the ops nested in it, are only results of earlier relocated ops of the  *)
(* body, or values defined outside, is relocated in the same run; the      *)
(* terminator is not; a second run rewrites no shape-query and relocates   *)
(* no op.                                                                  *)
C10_SinglePassFixedPoint ==
  /\ last = "hoist" =>
       \A r \in Replicates(pre) :
         /\ \A o \in Range(Front(BlockOps(pre, pre.ops[r].region))) :
              (\A v \in NestedOperands(pre, o) :
                 DefinedOutside(pre, v, r) \/ EarlierRelocatedResult(v, o, r))
              => Relocated(o, r)
         /\ ~Relocated(Last(BlockOps(pre, pre.ops[r].region)), r)
  /\ (last = "hoist" /\ prior = "hoist") => (func = pre /\ log = <<>>)

(* a second run on a function whose first run rewrote a shape-query on the *)
(* block argument, relocated it, and relocated an op that uses its result  *)
C10_Witness ==
  /\ last = "hoist" /\ prior = "hoist"
  /\ \E r \in Replicates(func) :
       \E s \in OpsOfKind(func, "tf.Shape") :
         /\ func.ops[s].block = func.ops[r].block
         /\ func.ops[s].operands[1] \in OperandsOf(func, r)
         /\ \E u \in Uses(func, OpResult(s, 0)) :
              /\ func.ops[u[1]].block = func.ops[r].block
              /\ func.ops[u[1]].kind \notin TerminatorKinds

(* C6: after a run of either pass (the input functions are well formed,    *)
(* InputsWellFormed) every operand refers to a value whose definition is   *)
(* in the function, every use is by an op in the function, no op was       *)
(* erased with uses, and every value is defined in the region of each use  *)
(* or in one enclosing it.                                                 *)
C6_NoDanglingUses ==
  last # "none" =>
    /\ NoDanglingUses(func)
    /\ RegionDominance(func)
    /\ \A e \in Range(log) : e.uses = 0

(* a hoisting run, after a structuring run, that replaced a used           *)
(* shape-query and relocated an op                                         *)
C6_Witness ==
  /\ last = "hoist" /\ prior = "structure"
  /\ \E e \in Range(log) : Uses(pre, OpResult(e.old, 0)) # {}
  /\ \E r \in Replicates(pre) : HoistedRun(r) # <<>>
  /\ OpsOfKind(func, "tf_executor.island") # {}

(* the input functions are well formed *)
InputsWellFormed ==
  last = "none" => NoDanglingUses(func) /\ RegionDominance(func) /\ TerminatedBlocks(func)
====
